---- MODULE Spec2Model ----
(***************************************************************************)
(* pinit: extract bookmark metadata for a URL with a language model and    *)
(* save it to Pinboard.  Two entry points run the same pipeline:           *)
(*   main.py        main()  ->  extract_bookmark -> add_bookmark_from_json  *)
(*   pinit/cli.py   add()   ->  extract_bookmark -> display -> [dry-run]    *)
(*                              -> get_api_token -> add_bookmark_from_json  *)
(*                                                                         *)
(* A Python str is a sequence of chunks.  A chunk is one whitespace        *)
(* character [ws |-> c], one other character [lit |-> c], or the           *)
(* serialisation of one JSON value [json |-> v].                           *)
(***************************************************************************)
EXTENDS Integers, Sequences, FiniteSets, TLC

\* Largest number of whitespace characters the model puts before, and after,
\* the body of its answer.
MaxPad == 1

W(c) == [ws |-> c]
L(c) == [lit |-> c]
J(v) == [json |-> v]

IsWs(c) == "ws" \in DOMAIN c
IsJson(c) == "json" \in DOMAIN c

\* The whitespace characters the model surrounds its answer with.
PadChars == {W(" "), W("\n")}

(***************************************************************************)
(* JSON values as json.loads decodes them: dict, str, list, int, bool,     *)
(* None.                                                                   *)
(***************************************************************************)
JObject(o) == [kind |-> "object", obj |-> o]
JString(s) == [kind |-> "string", str |-> s]
JArray(a) == [kind |-> "array", arr |-> a]
JNumber(n) == [kind |-> "number", num |-> n]
JBool(b) == [kind |-> "bool", bool |-> b]
JNull == [kind |-> "null"]

IsDict(v) == v.kind = "object"
IsStr(v) == v.kind = "string"
IsList(v) == v.kind = "array"

\* dict membership and dict.get(key, default)
HasKey(v, k) == IsDict(v) /\ k \in DOMAIN v.obj
Get(v, k, default) == IF k \in DOMAIN v.obj THEN v.obj[k] ELSE default

(***************************************************************************)
(* str.strip(): drop the leading and the trailing whitespace characters.   *)
(***************************************************************************)
RECURSIVE LStrip(_)
LStrip(s) ==
    IF s = <<>> THEN <<>>
    ELSE IF IsWs(Head(s)) THEN LStrip(Tail(s))
    ELSE s

RECURSIVE RStrip(_)
RStrip(s) ==
    IF s = <<>> THEN <<>>
    ELSE IF IsWs(s[Len(s)]) THEN RStrip(SubSeq(s, 1, Len(s) - 1))
    ELSE s

Strip(s) == RStrip(LStrip(s))

(***************************************************************************)
(* json.loads(text): skips JSON whitespace around one value; anything      *)
(* else is a JSONDecodeError with the decoder's diagnostic.                *)
(***************************************************************************)
json_loads(text) ==
    LET body == LStrip(text)
    IN  IF body = <<>> \/ ~IsJson(Head(body))
        THEN [ok |-> FALSE, diag |-> "Expecting value"]
        ELSE IF LStrip(Tail(body)) # <<>>
        THEN [ok |-> FALSE, diag |-> "Extra data"]
        ELSE [ok |-> TRUE, value |-> Head(body).json]

(***************************************************************************)
(* The inputs: what the model may answer.                                  *)
(***************************************************************************)
TitleStrs == {<<>>, <<W(" "), W(" ")>>, <<L("T")>>}
UrlStrs == {<<>>, <<W(" ")>>, <<L("u")>>}
DescStrs == {<<L("D")>>}
TagLists == {<<"a-b", "c">>, <<"c", "a-b">>}

\* The dicts with any subset of the four keys: each key is absent or has one
\* of its values.
Field(k, vals) == {<<>>} \cup {k :> v : v \in vals}

Dicts == {t @@ u @@ d @@ g : t \in Field("title", TitleStrs),
                             u \in Field("url", UrlStrs),
                             d \in Field("description", DescStrs),
                             g \in Field("tags", TagLists)}

Objects == {JObject(o) : o \in Dicts}

FullDict == [title |-> <<L("T")>>, url |-> <<L("u")>>,
             description |-> <<L("D")>>, tags |-> <<"a-b", "c">>]

\* JSON strings, one of them holding the text of a JSON object
StrValues == {JString(<<L("T")>>),
              JString(<<J(JObject(FullDict))>>),
              JString(<<J(JObject([url |-> <<L("u")>>]))>>)}

NonObjects == StrValues \cup {JArray(<<>>), JNumber(5), JBool(TRUE), JNull}

Values == Objects \cup NonObjects

Pads == UNION {[1..n -> PadChars] : n \in 0..MaxPad}

\* Answers that are not JSON: prose, prose before an object, a code fence
\* around an object, two values, nothing.
Garbage == {<<>>,
            <<L("S")>>,
            <<L("S"), W(" "), J(JObject(FullDict))>>,
            <<L("~"), W("\n"), J(JObject(FullDict)), W("\n"), L("~")>>,
            <<J(JObject(FullDict)), W(" "), J(JObject(FullDict))>>}

Bodies == {<<J(v)>> : v \in Values} \cup Garbage

Texts == {p \o b \o q : p \in Pads, b \in Bodies, q \in Pads}

(***************************************************************************)
(* Exceptions.  json.JSONDecodeError is a subclass of ValueError; KeyError, *)
(* TypeError and AttributeError are not.                                   *)
(***************************************************************************)
Exc(type, diag, raw) == [type |-> type, diag |-> diag, raw |-> raw]

IsValueError(e) == e.type \in {"ValueError", "JSONDecodeError"}

(***************************************************************************)
(* PinboardBookmarkExtractor.extract_bookmark, from the model's response   *)
(* on: json.loads(response.text().strip()), the decoded value returned as  *)
(* it is, a JSONDecodeError re-raised as ValueError with the decoder's     *)
(* message and response.text().                                            *)
(***************************************************************************)
extract_bookmark_trimmed(text) ==
    LET r == json_loads(Strip(text))
    IN  IF r.ok
        THEN [ok |-> TRUE, value |-> r.value]
        ELSE [ok |-> FALSE, exc |-> Exc("ValueError", r.diag, Strip(text))]

extract_bookmark(text) ==
    LET r == json_loads(Strip(text))
    IN  IF r.ok
        THEN [ok |-> TRUE, value |-> r.value]
        ELSE [ok |-> FALSE, exc |-> Exc("ValueError", r.diag, text)]

(***************************************************************************)
(* The subscript bookmark_data[key]: TypeError on anything but a dict,     *)
(* KeyError on a dict without the key.  <<>> when all the keys are there.  *)
(***************************************************************************)
SubscriptError(v, keys) ==
    IF ~IsDict(v) THEN <<Exc("TypeError", "subscript", <<>>)>>
    ELSE IF \E i \in 1..Len(keys) : keys[i] \notin DOMAIN v.obj
    THEN LET i == CHOOSE j \in 1..Len(keys) :
                      /\ keys[j] \notin DOMAIN v.obj
                      /\ \A k \in 1..(j - 1) : keys[k] \in DOMAIN v.obj
         IN  <<Exc("KeyError", keys[i], <<>>)>>
    ELSE <<>>

(***************************************************************************)
(* main.py add_bookmark_from_json: the arguments of pb.posts.add, or the   *)
(* exception raised while they are evaluated.                              *)
(***************************************************************************)
add_bookmark_from_json(bookmark_json) ==
    LET r == IF IsStr(bookmark_json)
             THEN json_loads(bookmark_json.str)
             ELSE [ok |-> TRUE, value |-> bookmark_json]
    IN  IF ~r.ok
        THEN [ok |-> FALSE, exc |-> Exc("JSONDecodeError", r.diag, <<>>)]
        ELSE IF SubscriptError(r.value, <<"url", "title">>) # <<>>
        THEN [ok |-> FALSE,
              exc |-> SubscriptError(r.value, <<"url", "title">>)[1]]
        ELSE [ok |-> TRUE,
              fields |-> [url |-> r.value.obj.url,
                          description |-> r.value.obj.title,
                          extended |-> Get(r.value, "description", <<>>),
                          tags |-> Get(r.value, "tags", <<>>),
                          shared |-> TRUE,
                          toread |-> FALSE]]

(***************************************************************************)
(* pinit/pinboard_client.py add_bookmark_from_json, as the publish adapter *)
(* is specified: the service's field names, shared = not private, the      *)
(* required keys read by subscript.                                        *)
(***************************************************************************)
client_add_bookmark_from_json(bookmark_data, options) ==
    IF SubscriptError(bookmark_data, <<"url", "title">>) # <<>>
    THEN [ok |-> FALSE,
          exc |-> SubscriptError(bookmark_data, <<"url", "title">>)[1]]
    ELSE [ok |-> TRUE,
          fields |-> [url |-> bookmark_data.obj.url,
                      description |-> bookmark_data.obj.title,
                      extended |-> Get(bookmark_data, "description", <<>>),
                      tags |-> Get(bookmark_data, "tags", <<>>),
                      shared |-> ~options.private,
                      toread |-> options.toread]]

\* cli.add calls the adapter with (pb, bookmark_data) only, so the adapter
\* falls back on its defaults: public and not to-read, the values that
\* add_bookmark_from_json of main.py hard-codes (shared=True, toread=False).
AdapterDefaults == {[private |-> FALSE, toread |-> FALSE]}

\* bookmark.copy(): dict and list have it, str, int, bool and None do not.
CopyError(v) ==
    IF IsDict(v) \/ IsList(v) THEN <<>>
    ELSE <<Exc("AttributeError", "copy", <<>>)>>

(***************************************************************************)
(* cli.add display: JSON(data=bookmark) with --json, else the panel.       *)
(***************************************************************************)
RECURSIVE Join(_, _)
Join(sep, items) ==
    IF items = <<>> THEN <<>>
    ELSE IF Len(items) = 1 THEN items
    ELSE <<Head(items), sep>> \o Join(sep, Tail(items))

NA == <<L("N"), L("/"), L("A")>>

Panel(bookmark) ==
    [mode |-> "panel",
     title |-> bookmark.obj.title,
     url |-> bookmark.obj.url,
     description |-> Get(bookmark, "description", NA),
     tags |-> Join(", ", Get(bookmark, "tags", <<>>))]

CliDisplay(bookmark, output_json) ==
    IF output_json THEN [ok |-> TRUE, shown |-> [mode |-> "json", data |-> bookmark]]
    ELSE IF SubscriptError(bookmark, <<"title", "url">>) # <<>>
    THEN [ok |-> FALSE, exc |-> SubscriptError(bookmark, <<"title", "url">>)[1]]
    ELSE [ok |-> TRUE, shown |-> Panel(bookmark)]

\* main.py print(json.dumps(bookmark, indent=2))
MainDisplay(bookmark) == [mode |-> "json", data |-> bookmark]

(***************************************************************************)
(* How each entry point ends: the message printed, the exit status, and    *)
(* where control goes.                                                     *)
(***************************************************************************)
End(out, exit) == [pc |-> "done", out |-> out, exit |-> exit]
Goto(pc) == [pc |-> pc, out |-> "", exit |-> -1]

\* cli.add: except ValueError / except Exception, both sys.exit(1)
CliHandler(e) ==
    IF IsValueError(e) THEN End("Error extracting bookmark data", 1)
    ELSE End("Unexpected error", 1)

\* main.main: except Exception: print, fall off the end
MainHandler_retry(e) == Goto("start")

MainHandler(e) == End("Error adding bookmark", 0)

\* cli.add: if dry_run: print, return
CliDryRun_ignored(dry) == Goto("token")

CliDryRun(dry) ==
    IF dry THEN End("Dry run mode - bookmark not saved", 0)
    ELSE Goto("token")

\* cli.add: if not api_token: sys.exit(1)   (get_api_token printed the error)
CliToken(present) ==
    IF ~present THEN End("PINBOARD_API_TOKEN not found", 1)
    ELSE Goto("publish")

\* cli.add: if result: saved, else: failed, sys.exit(1)
CliResult_unchecked(result) == End("Bookmark saved successfully", 0)

CliResult(result) ==
    IF result THEN End("Bookmark saved successfully", 0)
    ELSE End("Failed to save bookmark", 1)

\* main.main: if not result: print, return; else print twice
MainResult(result) ==
    IF ~result THEN End("Failed to add bookmark", 0)
    ELSE End("Bookmark added successfully", 0)

(***************************************************************************)
(* State of one invocation.                                                *)
(***************************************************************************)
VARIABLES
    entry,        \* "main" (main.py) or "cli" (pinit add)
    argvUrl,      \* main.py: len(sys.argv) >= 2
    dry_run, output_json, private, toread,   \* the options of pinit add
    token,        \* PINBOARD_API_TOKEN is set
    pc,           \* "start", "display", "token", "publish", "done"
    modelCalls,   \* calls of self.model.prompt
    response,     \* <<response.text()>> once the model has answered
    bookmark,     \* <<value>> once extract_bookmark has returned
    raised,       \* <<exception>> once one has reached the handler
    displayed,    \* what was printed of the bookmark, in order
    tokenLookups, \* calls of get_api_token
    pubCalls,     \* the keyword arguments of each pb.posts.add call
    pubResults,   \* how each pb.posts.add call ended
    out,          \* the closing message
    exit          \* the exit status, -1 while running

vars == <<entry, argvUrl, dry_run, output_json, private, toread, token, pc,
          modelCalls, response, bookmark, raised, displayed, tokenLookups,
          pubCalls, pubResults, out, exit>>

options == <<entry, argvUrl, dry_run, output_json, private, toread, token>>

Init ==
    /\ entry \in {"main", "cli"}
    /\ argvUrl \in IF entry = "main" THEN BOOLEAN ELSE {TRUE}
    /\ dry_run \in IF entry = "cli" THEN BOOLEAN ELSE {FALSE}
    /\ output_json \in IF entry = "cli" THEN BOOLEAN ELSE {FALSE}
    /\ private \in IF entry = "cli" THEN BOOLEAN ELSE {FALSE}
    /\ toread \in IF entry = "cli" THEN BOOLEAN ELSE {FALSE}
    /\ token \in BOOLEAN
    /\ pc = "start"
    /\ modelCalls = 0
    /\ response = <<>>
    /\ bookmark = <<>>
    /\ raised = <<>>
    /\ displayed = <<>>
    /\ tokenLookups = 0
    /\ pubCalls = <<>>
    /\ pubResults = <<>>
    /\ out = ""
    /\ exit = -1

Finish(e) ==
    /\ pc' = e.pc
    /\ out' = e.out
    /\ exit' = e.exit

\* The except clauses and the result test of the running entry point.
Handler(e) == IF entry = "cli" THEN CliHandler(e) ELSE MainHandler(e)
Result(r) == IF entry = "cli" THEN CliResult(r) ELSE MainResult(r)

\* The try body raised e: the handler of the entry point decides the end.
Raise(e, handler) ==
    /\ raised' = <<e>>
    /\ Finish(handler)

(***************************************************************************)
(* extract_bookmark(url): one model call, then the parse.  The call may    *)
(* raise (network, auth, quota); the exception is not caught by the        *)
(* extractor.                                                              *)
(***************************************************************************)
Extract ==
    /\ modelCalls' = modelCalls + 1
    /\ \/ /\ Raise(Exc("Exception", "model", <<>>),
                   Handler(Exc("Exception", "model", <<>>)))
          /\ UNCHANGED <<response, bookmark>>
       \/ \E text \in Texts :
             /\ response' = <<text>>
             /\ IF extract_bookmark(text).ok
                THEN /\ bookmark' = <<extract_bookmark(text).value>>
                     /\ Finish(Goto("display"))
                     /\ UNCHANGED raised
                ELSE /\ Raise(extract_bookmark(text).exc,
                              Handler(extract_bookmark(text).exc))
                     /\ UNCHANGED bookmark
    /\ UNCHANGED <<options, displayed, tokenLookups, pubCalls, pubResults>>

(***************************************************************************)
(* pb.posts.add with the fields: the one request to Pinboard.  It returns a *)
(* truthy or a falsy result, or raises.                                    *)
(***************************************************************************)
PublishResults == {"truthy", "falsy", "raise", "raise ValueError"}

PostsAdd(fields) ==
    /\ pubCalls' = Append(pubCalls, fields)
    /\ \E r \in PublishResults :
          /\ pubResults' = Append(pubResults, r)
          /\ CASE r = "truthy" -> Finish(Result(TRUE)) /\ UNCHANGED raised
               [] r = "falsy" -> Finish(Result(FALSE)) /\ UNCHANGED raised
               [] r = "raise" ->
                    Raise(Exc("Exception", "publish", <<>>),
                          Handler(Exc("Exception", "publish", <<>>)))
               [] r = "raise ValueError" ->
                    Raise(Exc("ValueError", "publish", <<>>),
                          Handler(Exc("ValueError", "publish", <<>>)))

(***************************************************************************)
(* main.py main()                                                          *)
(***************************************************************************)
MainUsage ==
    /\ entry = "main" /\ pc = "start" /\ ~argvUrl
    /\ Finish(End("Usage: python main.py <url>", 1))
    /\ UNCHANGED <<options, modelCalls, response, bookmark, raised, displayed,
                   tokenLookups, pubCalls, pubResults>>

MainExtract ==
    /\ entry = "main" /\ pc = "start" /\ argvUrl
    /\ Extract

MainPrint ==
    /\ entry = "main" /\ pc = "display"
    /\ displayed' = Append(displayed, MainDisplay(bookmark[1]))
    /\ Finish(Goto("publish"))
    /\ UNCHANGED <<options, modelCalls, response, bookmark, raised,
                   tokenLookups, pubCalls, pubResults>>

MainPublish ==
    /\ entry = "main" /\ pc = "publish"
    /\ IF add_bookmark_from_json(bookmark[1]).ok
       THEN PostsAdd(add_bookmark_from_json(bookmark[1]).fields)
       ELSE /\ Raise(add_bookmark_from_json(bookmark[1]).exc,
                     MainHandler(add_bookmark_from_json(bookmark[1]).exc))
            /\ UNCHANGED <<pubCalls, pubResults>>
    /\ UNCHANGED <<options, modelCalls, response, bookmark, displayed,
                   tokenLookups>>

(***************************************************************************)
(* pinit/cli.py add()                                                      *)
(***************************************************************************)
CliExtract ==
    /\ entry = "cli" /\ pc = "start"
    /\ Extract

CliShow ==
    /\ entry = "cli" /\ pc = "display"
    /\ IF CliDisplay(bookmark[1], output_json).ok
       THEN /\ displayed' = Append(displayed,
                                   CliDisplay(bookmark[1], output_json).shown)
            /\ Finish(CliDryRun(dry_run))
            /\ UNCHANGED raised
       ELSE /\ Raise(CliDisplay(bookmark[1], output_json).exc,
                     CliHandler(CliDisplay(bookmark[1], output_json).exc))
            /\ UNCHANGED displayed
    /\ UNCHANGED <<options, modelCalls, response, bookmark, tokenLookups,
                   pubCalls, pubResults>>

CliGetToken ==
    /\ entry = "cli" /\ pc = "token"
    /\ tokenLookups' = tokenLookups + 1
    /\ Finish(CliToken(token))
    /\ UNCHANGED <<options, modelCalls, response, bookmark, raised, displayed,
                   pubCalls, pubResults>>

CliPublish ==
    /\ entry = "cli" /\ pc = "publish"
    /\ IF CopyError(bookmark[1]) # <<>>
       THEN /\ Raise(CopyError(bookmark[1])[1],
                     CliHandler(CopyError(bookmark[1])[1]))
            /\ UNCHANGED <<pubCalls, pubResults>>
       ELSE \E o \in AdapterDefaults :
               LET r == client_add_bookmark_from_json(bookmark[1], o)
               IN  IF r.ok
                   THEN PostsAdd(r.fields)
                   ELSE /\ Raise(r.exc, CliHandler(r.exc))
                        /\ UNCHANGED <<pubCalls, pubResults>>
    /\ UNCHANGED <<options, modelCalls, response, bookmark, displayed,
                   tokenLookups>>

Next ==
    \/ MainUsage
    \/ MainExtract
    \/ MainPrint
    \/ MainPublish
    \/ CliExtract
    \/ CliShow
    \/ CliGetToken
    \/ CliPublish

Spec == Init /\ [][Next]_vars

(***************************************************************************)
(* Vocabulary of the properties.                                           *)
(***************************************************************************)
Answered == response # <<>>
Decoded == json_loads(response[1])
Parseable == Answered /\ Decoded.ok
IsObjectAnswer == Parseable /\ IsDict(Decoded.value)

\* key present with a value that is non-empty after trimming
Filled(v, k) == HasKey(v, k) /\ Strip(v.obj[k]) # <<>>
Blank(v, k) == HasKey(v, k) /\ Strip(v.obj[k]) = <<>>
Validated(v) == IsDict(v) /\ Filled(v, "title") /\ Filled(v, "url")

Returned == bookmark # <<>>
Failed == raised # <<>>
Published == pubCalls # <<>>

SavedOuts == {"Bookmark saved successfully", "Bookmark added successfully"}
FalsyOuts == {"Failed to save bookmark", "Failed to add bookmark"}
HandlerOuts == {"Error extracting bookmark data", "Unexpected error",
                "Error adding bookmark"}

\* C1: pb.posts.add is called only with a validated record: a JSON object
\* whose title and url are present and non-empty after trimming.
C1_PublishOnlyValidated ==
    Published => (Returned /\ Validated(bookmark[1]))

\* C2: a response that is not parseable JSON makes extract_bookmark raise
\* ValueError carrying the decoder's diagnostic and the raw response text,
\* not the trimmed text; nothing is returned.
C2_ParseErrorKeepsRawText ==
    (Answered /\ ~Decoded.ok) =>
        /\ ~Returned
        /\ Failed
        /\ raised[1].type = "ValueError"
        /\ raised[1].raw = response[1]
        /\ raised[1].diag = Decoded.diag

C2_Witness ==
    /\ Answered /\ ~Decoded.ok /\ Failed
    /\ Strip(response[1]) # response[1]
    /\ Strip(response[1]) # <<>>

\* C3: a JSON object without the title key or without the url key makes
\* extraction fail with a schema error, distinct from the parse error; no
\* record is returned.
C3_MissingKeyIsSchemaError ==
    (IsObjectAnswer /\ (~HasKey(Decoded.value, "title")
                        \/ ~HasKey(Decoded.value, "url"))) =>
        /\ ~Returned
        /\ Failed
        /\ raised[1].type = "ExtractionSchemaError"

\* C4: valid JSON that is not an object makes extract_bookmark fail with the
\* parse error instead of returning the decoded value.
C4_NonObjectIsParseError ==
    (Parseable /\ ~IsDict(Decoded.value)) =>
        /\ ~Returned
        /\ Failed
        /\ IsValueError(raised[1])

\* C5: an empty or whitespace-only title (or url) counts as absent:
\* extraction fails with the schema error, nothing is returned or published.
C5_BlankIsSchemaError ==
    (IsObjectAnswer /\ (Blank(Decoded.value, "title")
                        \/ Blank(Decoded.value, "url"))) =>
        /\ ~Returned
        /\ ~Published
        /\ Failed
        /\ raised[1].type = "ExtractionSchemaError"

\* C6: a JSON object with non-empty title and url, padded or not, is
\* extracted with exactly its title and url, and the panel and the publish
\* call both see its description and tags, "" and [] where they are missing.
C6_RecordAndDefaults ==
    (IsObjectAnswer /\ Validated(Decoded.value)) =>
        /\ Returned
        /\ IsDict(bookmark[1])
        /\ bookmark[1].obj.title = Decoded.value.obj.title
        /\ bookmark[1].obj.url = Decoded.value.obj.url
        /\ \A i \in DOMAIN displayed :
              displayed[i].mode = "panel" =>
                 /\ displayed[i].description
                       = Get(Decoded.value, "description", <<>>)
                 /\ displayed[i].tags
                       = Join(", ", Get(Decoded.value, "tags", <<>>))
        /\ \A i \in DOMAIN pubCalls :
              /\ pubCalls[i].extended = Get(Decoded.value, "description", <<>>)
              /\ pubCalls[i].tags = Get(Decoded.value, "tags", <<>>)

\* C7: for a record with title and url, the publish call carries url,
\* description = title, extended = description, tags, shared = not private
\* and toread = toread.
C7_PublishFields ==
    \A i \in DOMAIN pubCalls :
        Validated(bookmark[1]) =>
            pubCalls[i] = [url |-> bookmark[1].obj.url,
                           description |-> bookmark[1].obj.title,
                           extended |-> Get(bookmark[1], "description", <<>>),
                           tags |-> Get(bookmark[1], "tags", <<>>),
                           shared |-> ~private,
                           toread |-> toread]

\* C8: nothing is retried.  The model is called at most once and publish at
\* most once; a reported save consumed the record in exactly one publish
\* call; once the model call, the parse or the publish call has failed, the
\* invocation has ended with a message and no further call is made.
PublishFailed == pubResults # <<>> /\ pubResults[Len(pubResults)] # "truthy"

C8_NoRetry ==
    [][/\ modelCalls' <= 1
       /\ Len(pubCalls') <= 1
       /\ (out' \in SavedOuts => Len(pubCalls') = 1 /\ modelCalls' = 1)
       /\ ((Failed' \/ PublishFailed') => (pc' = "done" /\ out' # ""))
       /\ ((Failed \/ PublishFailed) =>
              (modelCalls' = modelCalls /\ pubCalls' = pubCalls))]_vars

C8_Witness ==
    /\ pc = "done"
    /\ modelCalls = 1
    /\ Len(pubCalls) = 1
    /\ pubResults = <<"raise">>
    /\ Failed

\* C9: publish returning a falsy result and publish raising end with
\* different messages, and a save is reported only when publish was called
\* and returned a truthy result.
C9_PublishOutcomes ==
    pc = "done" =>
        /\ (pubResults = <<"falsy">> => (out \in FalsyOuts /\ ~Failed))
        /\ (pubResults \in {<<"raise">>, <<"raise ValueError">>} =>
               (out \in HandlerOuts /\ Failed))
        /\ (out \in SavedOuts => (Published /\ pubResults = <<"truthy">>))

C9_Witness ==
    /\ pc = "done"
    /\ entry = "cli"
    /\ pubResults = <<"falsy">>
    /\ out = "Failed to save bookmark"

\* C10: with --dry-run neither get_api_token nor pb.posts.add is reached:
\* after extraction and display the command returns without saving, after a
\* failure it exits with status 1.
C10_DryRunNeverSaves ==
    (entry = "cli" /\ dry_run) =>
        /\ tokenLookups = 0
        /\ ~Published
        /\ pc \in {"start", "display", "done"}
        /\ (pc = "done" /\ ~Failed) =>
              (/\ out = "Dry run mode - bookmark not saved"
               /\ exit = 0
               /\ Len(displayed) = 1)
        /\ (pc = "done" /\ Failed) => (exit = 1 /\ out \in HandlerOuts)

C10_Witness ==
    /\ entry = "cli" /\ dry_run /\ token
    /\ pc = "done"
    /\ Returned /\ Validated(bookmark[1])
    /\ out = "Dry run mode - bookmark not saved"

====
